---- MODULE Spec2Model ----
(***************************************************************************)
(* detect-changed-files: the path-pattern matching engine (matching.rs),   *)
(* the aggregation of per-group results (main.rs) and the configuration    *)
(* parser (config.rs).                                                     *)
(*                                                                         *)
(* A character is a one-character string; a Rust Vec<char> / &str is a     *)
(* sequence of characters.  Rust indices are 0-based and are kept 0-based  *)
(* in the model: element i of a Rust slice v is v[i + 1] here.             *)
(***************************************************************************)
EXTENDS Integers, Sequences, FiniteSets, TLC

VARIABLES
    pc,              \* position of the function the specification runs
    \* MatchPath::is_match (matching.rs)
    pattern_str,     \* the pattern's source string
    text_str,        \* the candidate's source string
    pattern,         \* self: the pattern MatchPath
    text,            \* text: the candidate MatchPath
    pattern_idx,     \* index in self.components
    text_idx,        \* index in text.components
    is_double_star,  \* the local flag of is_match
    result,          \* the value returned
    iterations,      \* history: the executions of the while loop's body so far
    \* MatchPath::from_str (matching.rs)
    path_in,         \* the string handed to from_str
    path_out,        \* the MatchPath it returns
    \* match_pattern_component (matching.rs)
    comp_pattern,    \* pattern: &[char]
    comp_text,       \* text: &[char]
    comp_result,     \* the value returned
    \* check_patterns (main.rs)
    config,          \* config: group name -> its pattern strings, in order
    diff_files,      \* diff_files.files: the candidate MatchPaths, in order
    results,         \* results: group name -> bool
    file_i,          \* 0-based position of the outer loop in diff_files.files
    pending,         \* the groups config.iter() has not yet yielded for this file
    group_name,      \* the group whose patterns are being tried
    pattern_i,       \* 0-based position of the inner loop in the group's patterns
    evaluations,     \* history: the calls of is_match made so far, in order
    \* parse_config (config.rs)
    content,         \* content: &str
    line_num,        \* 0-based position of the loop in content.lines()
    parsed,          \* result: section name -> its items
    current_section, \* current_section: String
    vec_section,     \* vec_section: Vec<String>
    outcome,         \* the Result returned
    \* match_recursive_memo (matching.rs), call by call
    rec_pattern,     \* pattern: &[char]
    rec_text,        \* text: &[char], kept as runs of equal characters
    stack,           \* the calls in progress, the innermost one last
    rec_memo,        \* memo: HashMap<usize, bool>, kept as runs of equal keys
    memo_owner,      \* history: key -> the p_idx of the call that inserted it
    ret,             \* the value the call that returned last has returned
    calls            \* history: the calls of match_recursive_memo made so far

matchVars == << pattern_str, text_str, pattern, text, pattern_idx, text_idx,
                is_double_star, result, iterations >>
pathVars == << path_in, path_out >>
compVars == << comp_pattern, comp_text, comp_result >>

aggVars == << config, diff_files, results, file_i, pending, group_name,
              pattern_i, evaluations >>

confVars == << content, line_num, parsed, current_section, vec_section,
               outcome >>

recVars ==
    << rec_pattern, rec_text, stack, rec_memo, memo_owner, ret, calls >>

vars == << pc, matchVars, pathVars, compVars, aggVars, confVars, recVars >>

None == "none"

\* the variables of the functions a specification does not run
MatchIdle ==
    /\ pattern_str = None /\ text_str = None /\ pattern = None /\ text = None
    /\ pattern_idx = None /\ text_idx = None /\ is_double_star = None
    /\ result = None /\ iterations = None

PathIdle == path_in = None /\ path_out = None

CompIdle == comp_pattern = None /\ comp_text = None /\ comp_result = None

AggIdle ==
    /\ config = None /\ diff_files = None /\ results = None /\ file_i = None
    /\ pending = None /\ group_name = None /\ pattern_i = None
    /\ evaluations = None

ConfIdle ==
    /\ content = None /\ line_num = None /\ parsed = None
    /\ current_section = None /\ vec_section = None /\ outcome = None

RecIdle ==
    /\ rec_pattern = None /\ rec_text = None /\ stack = None
    /\ rec_memo = None
    /\ memo_owner = None /\ ret = None /\ calls = None

(***************************************************************************)
(* Bounds of the model.                                                    *)
(***************************************************************************)
MaxPatComps == 3
MaxTextComps == 4
MaxPathLen == 6
MaxCompPatLen == 4
MaxCompTextLen == 4
MaxGroupPatterns == 2
MaxFiles == 2
MaxLines == 3

(***************************************************************************)
(* Sequence helpers (Rust slice operations).                               *)
(***************************************************************************)
\* path[from..to] with 0-based, half-open Rust bounds
Slice(s, from, to) == SubSeq(s, from + 1, to)

SeqsUpTo(S, n) == UNION { [1..k -> S] : k \in 0..n }

(***************************************************************************)
(* PathComponent                                                           *)
(***************************************************************************)
comp_is_double_star(str) ==
    Len(str) = 2 /\ str[1] = "*" /\ str[2] = "*"

(***************************************************************************)
(* split_path_components: the scan over path.iter().enumerate(); i is the  *)
(* 0-based position, start the 0-based start of the current run.           *)
(***************************************************************************)
\* Faulty variant of split_scan: the test i > start is dropped, so that an empty run
\* between two separators is pushed as a component.
RECURSIVE split_scan_keep_empty(_, _, _, _)
split_scan_keep_empty(path, i, start, components) ==
    IF i = Len(path)
    THEN IF start < Len(path)
         THEN Append(components, Slice(path, start, Len(path)))
         ELSE components
    ELSE IF path[i + 1] = "/"
         THEN split_scan_keep_empty(path, i + 1, i + 1,
                                    Append(components, Slice(path, start, i)))
         ELSE split_scan_keep_empty(path, i + 1, start, components)

RECURSIVE split_scan(_, _, _, _)
split_scan(path, i, start, components) ==
    IF i = Len(path)
    THEN \* Add last component if not empty
         IF start < Len(path)
         THEN Append(components, Slice(path, start, Len(path)))
         ELSE components
    ELSE IF path[i + 1] = "/"
         THEN split_scan(path, i + 1, i + 1,
                         IF i > start
                         THEN Append(components, Slice(path, start, i))
                         ELSE components)
         ELSE split_scan(path, i + 1, start, components)

split_path_components(path) == split_scan(path, 0, 0, << >>)

(***************************************************************************)
(* MatchPath::new / MatchPath::from_str                                    *)
(***************************************************************************)
new(path) ==
    IF path = << >>
    THEN [components |-> << >>, is_absolute |-> FALSE, is_directory |-> FALSE]
    ELSE [components   |-> split_path_components(path),
          is_absolute  |-> path[1] = "/",
          is_directory |-> path # << >> /\ path[Len(path)] = "/"]

\* path.chars().collect() is the identity on a sequence of characters
from_str(path) == new(path)

(***************************************************************************)
(* match_recursive_memo: the memo is a HashMap<usize, bool>, here a        *)
(* function from the keys present to their values.  The call returns its   *)
(* boolean together with the memo as the call leaves it.                   *)
(***************************************************************************)
MemoStride == 10000

memo_key(p_idx, t_idx) == p_idx * MemoStride + t_idx

memo_insert(memo, key, value) ==
    [k \in DOMAIN memo \cup {key} |-> IF k = key THEN value ELSE memo[k]]

\* Faulty variant of all_stars_from: only the current pattern character is tested.
all_stars_from_current_only(pat, p_idx) == pat[p_idx + 1] = "*"

\* pattern[p_idx..].iter().all(|&c| c == '*')
all_stars_from(pat, p_idx) ==
    \A k \in (p_idx + 1)..Len(pat) : pat[k] = "*"

RECURSIVE match_recursive_memo(_, _, _, _, _)
RECURSIVE star_loop(_, _, _, _, _, _)

\* for i in 0..=(text.len() - t_idx): the first i whose recursive call matches
star_loop(pat, txt, p_idx, t_idx, i, memo) ==
    IF i > Len(txt) - t_idx
    THEN [result |-> FALSE, memo |-> memo]
    ELSE LET r == match_recursive_memo(pat, txt, p_idx + 1, t_idx + i, memo)
         IN  IF r.result
             THEN [result |-> TRUE, memo |-> r.memo]
             ELSE star_loop(pat, txt, p_idx, t_idx, i + 1, r.memo)

match_recursive_memo(pat, txt, p_idx, t_idx, memo) ==
    LET key == memo_key(p_idx, t_idx)
        done(r, m) == [result |-> r, memo |-> memo_insert(m, key, r)]
    IN  IF key \in DOMAIN memo
        THEN [result |-> memo[key], memo |-> memo]
        ELSE IF p_idx = Len(pat)
        THEN done(t_idx = Len(txt), memo)
        ELSE IF t_idx = Len(txt)
        THEN done(all_stars_from(pat, p_idx), memo)
        ELSE IF pat[p_idx + 1] = "*"
        THEN LET r == star_loop(pat, txt, p_idx, t_idx, 0, memo)
             IN  done(r.result, r.memo)
        ELSE IF pat[p_idx + 1] = "?"
        THEN LET r == match_recursive_memo(pat, txt, p_idx + 1, t_idx + 1, memo)
             IN  done(r.result, r.memo)
        ELSE IF t_idx < Len(txt) /\ pat[p_idx + 1] = txt[t_idx + 1]
        THEN LET r == match_recursive_memo(pat, txt, p_idx + 1, t_idx + 1, memo)
             IN  done(r.result, r.memo)
        ELSE done(FALSE, memo)

match_pattern_component(pat, txt) ==
    match_recursive_memo(pat, txt, 0, 0, << >>).result

(***************************************************************************)
(* MatchPath::is_match.  The locals of one call are the record             *)
(*   [pattern_idx, text_idx, is_double_star, pc, result];                  *)
(* pc is "entry" before the first statement, "loop" at the head of the     *)
(* while loop, "done" after a return.                                      *)
(***************************************************************************)
entry_locals ==
    [pattern_idx |-> 0, text_idx |-> 0, is_double_star |-> FALSE,
     pc |-> "entry", result |-> None]

returns(l, value) == [l EXCEPT !.pc = "done", !.result = value]

\* Faulty variant of is_match_entry: the flag starts true for an absolute pattern too.
is_match_entry_unanchored(self, txt, l) ==
    IF self.components = << >>
    THEN returns(l, txt.components = << >>)
    ELSE [l EXCEPT !.pc = "loop", !.pattern_idx = 0, !.text_idx = 0,
                   !.is_double_star = TRUE]

\* lines 69-78: the empty-pattern special case and the initial locals
is_match_entry(self, txt, l) ==
    IF self.components = << >>
    THEN returns(l, txt.components = << >>)
    ELSE [l EXCEPT !.pc = "loop", !.pattern_idx = 0, !.text_idx = 0,
                   !.is_double_star = ~self.is_absolute]

loop_condition(self, txt, l) ==
    l.pattern_idx < Len(self.components) /\ l.text_idx < Len(txt.components)

\* Faulty variant of loop_body: a non-final "**" advances the pattern index
\* alone, so that it may stand for zero candidate components.
loop_body_double_star_zero(self, txt, l) ==
    LET pattern_comp == self.components[l.pattern_idx + 1]
        text_comp    == txt.components[l.text_idx + 1]
    IN  IF comp_is_double_star(pattern_comp)
        THEN IF l.pattern_idx + 1 = Len(self.components)
             THEN returns([l EXCEPT !.is_double_star = TRUE], TRUE)
             ELSE [l EXCEPT !.is_double_star = TRUE, !.pattern_idx = @ + 1]
        ELSE IF ~match_pattern_component(pattern_comp, text_comp)
        THEN IF l.is_double_star
             THEN [l EXCEPT !.text_idx = @ + 1]
             ELSE returns(l, FALSE)
        ELSE [l EXCEPT !.is_double_star = FALSE,
                       !.pattern_idx = @ + 1, !.text_idx = @ + 1]

\* lines 82-114: one iteration of the while loop
loop_body(self, txt, l) ==
    LET pattern_comp == self.components[l.pattern_idx + 1]
        text_comp    == txt.components[l.text_idx + 1]
    IN  IF comp_is_double_star(pattern_comp)
        THEN IF l.pattern_idx + 1 = Len(self.components)
             THEN returns([l EXCEPT !.is_double_star = TRUE], TRUE)
             ELSE [l EXCEPT !.is_double_star = TRUE,
                            !.pattern_idx = @ + 1, !.text_idx = @ + 1]
        ELSE IF ~match_pattern_component(pattern_comp, text_comp)
        THEN IF l.is_double_star
             THEN [l EXCEPT !.text_idx = @ + 1]
             ELSE returns(l, FALSE)
        ELSE [l EXCEPT !.is_double_star = FALSE,
                       !.pattern_idx = @ + 1, !.text_idx = @ + 1]

\* lines 117-127: after the loop
after_loop(self, txt, l) ==
    IF self.is_directory /\ l.pattern_idx = Len(self.components)
    THEN returns(l, TRUE)
    ELSE IF l.pattern_idx < Len(self.components)
            \/ l.text_idx < Len(txt.components)
    THEN returns(l, FALSE)
    ELSE returns(l, TRUE)

\* one step of the call from locals l
is_match_step(self, txt, l) ==
    IF l.pc = "entry" THEN is_match_entry(self, txt, l)
    ELSE IF loop_condition(self, txt, l) THEN loop_body(self, txt, l)
    ELSE after_loop(self, txt, l)

RECURSIVE is_match_run(_, _, _)
is_match_run(self, txt, l) ==
    IF l.pc = "done" THEN l.result
    ELSE is_match_run(self, txt, is_match_step(self, txt, l))

\* the whole call: pattern.is_match(&text)
is_match(self, txt) == is_match_run(self, txt, entry_locals)

(***************************************************************************)
(* Inputs: pattern and candidate strings, written out from a bounded       *)
(* number of components with or without a leading and a trailing '/'.      *)
(***************************************************************************)
PatComps  == { <<"a">>, <<"?">>, <<"*", "*">> }
TextComps == { <<"a">>, <<"b">> }

RECURSIVE join(_)
join(comps) ==
    IF comps = << >> THEN << >>
    ELSE IF Len(comps) = 1 THEN comps[1]
    ELSE comps[1] \o <<"/">> \o join(Tail(comps))

write_path(comps, lead, trail) ==
    (IF lead THEN <<"/">> ELSE << >>) \o join(comps)
        \o (IF trail /\ comps # << >> THEN <<"/">> ELSE << >>)

PatternStrings ==
    { write_path(c, l, t) : c \in SeqsUpTo(PatComps, MaxPatComps),
                            l \in BOOLEAN, t \in BOOLEAN }

TextStrings ==
    { write_path(c, l, t) : c \in SeqsUpTo(TextComps, MaxTextComps),
                            l \in BOOLEAN, t \in BOOLEAN }

(***************************************************************************)
(* Spec: one call pattern.is_match(&text), statement by statement.         *)
(***************************************************************************)
locals ==
    [pattern_idx |-> pattern_idx, text_idx |-> text_idx,
     is_double_star |-> is_double_star, pc |-> pc, result |-> result]

Apply(l) ==
    /\ pattern_idx' = l.pattern_idx
    /\ text_idx' = l.text_idx
    /\ is_double_star' = l.is_double_star
    /\ pc' = l.pc
    /\ result' = l.result
    /\ iterations' = IF pc = "loop" /\ loop_condition(pattern, text, locals)
                      THEN iterations + 1
                      ELSE iterations
    /\ UNCHANGED << pattern_str, text_str, pattern, text >>
    /\ UNCHANGED << pathVars, compVars, aggVars, confVars, recVars >>

Step == Apply(is_match_step(pattern, text, locals))

Init ==
    /\ pattern_str \in PatternStrings
    /\ text_str \in TextStrings
    /\ pattern = from_str(pattern_str)
    /\ text = from_str(text_str)
    /\ pattern_idx = entry_locals.pattern_idx
    /\ text_idx = entry_locals.text_idx
    /\ is_double_star = entry_locals.is_double_star
    /\ pc = entry_locals.pc
    /\ result = entry_locals.result
    /\ iterations = 0
    /\ PathIdle /\ CompIdle /\ AggIdle /\ ConfIdle /\ RecIdle

InLoop == pc = "loop" /\ loop_condition(pattern, text, locals)

CurPattern == pattern.components[pattern_idx + 1]
CurText == text.components[text_idx + 1]

\* line 69-71
EmptyPattern ==
    /\ pc = "entry" /\ pattern.components = << >>
    /\ Step

\* lines 74-78
Enter ==
    /\ pc = "entry" /\ pattern.components # << >>
    /\ Step

\* lines 86-91
DoubleStarLast ==
    /\ InLoop /\ comp_is_double_star(CurPattern)
    /\ pattern_idx + 1 = Len(pattern.components)
    /\ Step

\* lines 86-95
DoubleStarAdvance ==
    /\ InLoop /\ comp_is_double_star(CurPattern)
    /\ pattern_idx + 1 # Len(pattern.components)
    /\ Step

\* lines 97-103
MismatchSkip ==
    /\ InLoop /\ ~comp_is_double_star(CurPattern)
    /\ ~match_pattern_component(CurPattern, CurText)
    /\ is_double_star
    /\ Step

\* lines 97-105
MismatchFail ==
    /\ InLoop /\ ~comp_is_double_star(CurPattern)
    /\ ~match_pattern_component(CurPattern, CurText)
    /\ ~is_double_star
    /\ Step

\* lines 106-114
ComponentMatch ==
    /\ InLoop /\ ~comp_is_double_star(CurPattern)
    /\ match_pattern_component(CurPattern, CurText)
    /\ Step

\* lines 117-119
DirectoryAccept ==
    /\ pc = "loop" /\ ~loop_condition(pattern, text, locals)
    /\ pattern.is_directory /\ pattern_idx = Len(pattern.components)
    /\ Step

\* lines 121-124
LeftoverReject ==
    /\ pc = "loop" /\ ~loop_condition(pattern, text, locals)
    /\ ~(pattern.is_directory /\ pattern_idx = Len(pattern.components))
    /\ (pattern_idx < Len(pattern.components) \/ text_idx < Len(text.components))
    /\ Step

\* line 127
Accept ==
    /\ pc = "loop" /\ ~loop_condition(pattern, text, locals)
    /\ ~(pattern.is_directory /\ pattern_idx = Len(pattern.components))
    /\ ~(pattern_idx < Len(pattern.components) \/ text_idx < Len(text.components))
    /\ Step

Next ==
    \/ EmptyPattern
    \/ Enter
    \/ DoubleStarLast
    \/ DoubleStarAdvance
    \/ MismatchSkip
    \/ MismatchFail
    \/ ComponentMatch
    \/ DirectoryAccept
    \/ LeftoverReject
    \/ Accept

Spec == Init /\ [][Next]_vars

(***************************************************************************)
(* Claims about MatchPath::is_match, checked under Spec.                   *)
(***************************************************************************)
Returned == pc = "done"

NoDoubleStar(comps) == \A k \in 1..Len(comps) : ~comp_is_double_star(comps[k])

\* a component with no wildcard character
LiteralComp(str) == \A c \in 1..Len(str) : str[c] \notin { "*", "?" }

IsRelativeString(s) == s = << >> \/ s[1] # "/"

EndsWithSlash(s) == s # << >> /\ s[Len(s)] = "/"

\* comps is X ++ <<"**">> ++ Y with the "**" at position k and X, Y literal
DoubleStarAt(comps, k) ==
    /\ k \in 1..Len(comps)
    /\ comp_is_double_star(comps[k])
    /\ \A j \in 1..Len(comps) : j # k => LiteralComp(comps[j])

Before(comps, k) == SubSeq(comps, 1, k - 1)
After(comps, k) == SubSeq(comps, k + 1, Len(comps))

\* the last Len(pcomps) components of tcomps match pcomps one by one
SuffixMatches(pcomps, tcomps) ==
    /\ Len(tcomps) >= Len(pcomps)
    /\ \A i \in 1..Len(pcomps) :
          match_pattern_component(pcomps[i],
                                  tcomps[Len(tcomps) - Len(pcomps) + i])

\* C1: a relative pattern p returns, on every candidate, what the pattern
\* "**/" + p returns on it (stated for the patterns that have a component
\* and no "**" component of their own).
C1_RelativeSameAsDoubleStarPrefix ==
    (/\ Returned /\ IsRelativeString(pattern_str)
     /\ pattern.components # << >> /\ NoDoubleStar(pattern.components))
        => result = is_match(from_str(<<"*", "*", "/">> \o pattern_str), text)

\* C2: a relative pattern of n >= 1 components, none of them "**" and with no
\* trailing '/', matches every candidate whose last n components match the
\* pattern's components one by one, whatever precedes them.
C2_RelativeMatchesAtAnyDepth ==
    (/\ Returned
     /\ ~pattern.is_absolute /\ ~pattern.is_directory
     /\ pattern.components # << >> /\ NoDoubleStar(pattern.components)
     /\ SuffixMatches(pattern.components, text.components))
        => result = TRUE

\* C3: "**" matches zero components: the pattern X/**/Y matches the candidate
\* X/Y and the pattern X/** matches the candidate X (X, Y literal; stated
\* for a non-empty X).
C3_DoubleStarMatchesZeroComponents ==
    (/\ Returned
     /\ ~pattern.is_absolute /\ ~pattern.is_directory
     /\ \E k \in 2..Len(pattern.components) :
           /\ DoubleStarAt(pattern.components, k)
           /\ text.components = Before(pattern.components, k)
                                   \o After(pattern.components, k))
        => result = TRUE

\* C4: for non-empty literal X and Y and non-empty M, the pattern X/**/Y
\* matches the candidate X/M/Y, also when M holds components equal to the
\* first component of Y.
C4_MiddleDoubleStarAbsorbsAny ==
    (/\ Returned
     /\ ~pattern.is_absolute /\ ~pattern.is_directory
     /\ \E k \in 2..(Len(pattern.components) - 1) :
           /\ DoubleStarAt(pattern.components, k)
           /\ Len(text.components) >= Len(pattern.components)
           /\ SubSeq(text.components, 1, k - 1) = Before(pattern.components, k)
           /\ SubSeq(text.components,
                     Len(text.components) - (Len(pattern.components) - k) + 1,
                     Len(text.components)) = After(pattern.components, k))
        => result = TRUE

\* C5: a pattern string s that ends with '/' and has at least one component
\* returns, on every candidate, what s + "**" returns on it; and it matches
\* every candidate that begins with its components followed by one or more
\* further components (stated for the patterns with no "**" component).
C5_DirectorySameAsTrailingDoubleStar ==
    (/\ Returned
     /\ EndsWithSlash(pattern_str) /\ pattern.components # << >>
     /\ NoDoubleStar(pattern.components))
        => /\ result = is_match(from_str(pattern_str \o <<"*", "*">>), text)
           /\ (/\ Len(text.components) > Len(pattern.components)
               /\ SubSeq(text.components, 1, Len(pattern.components))
                     = pattern.components)
                 => result = TRUE

\* C6: an absolute pattern with no "**" component and no trailing '/' matches
\* exactly the candidates that have as many components as the pattern, each
\* matched by the pattern component at its position; nothing else of the
\* candidate (its leading or trailing '/') enters the result.
C6_AbsoluteAnchoring ==
    (/\ Returned
     /\ pattern.is_absolute /\ ~pattern.is_directory
     /\ NoDoubleStar(pattern.components))
        => result = (/\ Len(text.components) = Len(pattern.components)
                     /\ \A i \in 1..Len(pattern.components) :
                           match_pattern_component(pattern.components[i],
                                                   text.components[i]))

\* C6 witness: an absolute two-component pattern whose second component is
\* "?" has accepted a candidate written with a leading and a trailing '/'.
C6_Witness ==
    /\ Returned /\ result = TRUE
    /\ pattern.is_absolute /\ ~pattern.is_directory
    /\ NoDoubleStar(pattern.components) /\ Len(pattern.components) = 2
    /\ pattern.components[2] = <<"?">> /\ text.components[2] = <<"b">>
    /\ text.is_absolute /\ text.is_directory

PathChars == { "/", "a", "b" }

PathInit ==
    /\ path_in \in SeqsUpTo(PathChars, MaxPathLen)
    /\ path_out = None
    /\ pc = "from_str"
    /\ MatchIdle /\ CompIdle /\ AggIdle /\ ConfIdle /\ RecIdle

Construct ==
    /\ pc = "from_str"
    /\ path_out' = from_str(path_in)
    /\ pc' = "constructed"
    /\ UNCHANGED << path_in, matchVars, compVars, aggVars, confVars, recVars >>

PathNext == Construct

SpecPath == PathInit /\ [][PathNext]_vars

Constructed == pc = "constructed"

\* the positions of s where a maximal run of non-'/' characters starts
RunStarts(s) ==
    { i \in 1..Len(s) : s[i] # "/" /\ (i = 1 \/ s[i - 1] = "/") }

\* the position where the run that starts at i ends
RunEnd(s, i) ==
    CHOOSE j \in i..Len(s) :
        /\ \A k \in i..j : s[k] # "/"
        /\ j = Len(s) \/ s[j + 1] = "/"

\* the start of the k-th run from the left
NthRunStart(s, k) ==
    CHOOSE i \in RunStarts(s) :
        Cardinality({ j \in RunStarts(s) : j < i }) = k - 1

\* C10: from_str(s) holds exactly the maximal non-empty runs of non-'/'
\* characters of s, left to right (so no component is empty or holds a '/'),
\* is_absolute iff s starts with '/', is_directory iff s ends with '/', and
\* the empty string gives no components and both flags false.
C10_PathConstruction ==
    Constructed =>
        /\ Len(path_out.components) = Cardinality(RunStarts(path_in))
        /\ \A k \in 1..Len(path_out.components) :
              /\ path_out.components[k]
                    = SubSeq(path_in, NthRunStart(path_in, k),
                             RunEnd(path_in, NthRunStart(path_in, k)))
              /\ path_out.components[k] # << >>
              /\ \A c \in 1..Len(path_out.components[k]) :
                    path_out.components[k][c] # "/"
        /\ path_out.is_absolute = (path_in # << >> /\ path_in[1] = "/")
        /\ path_out.is_directory = EndsWithSlash(path_in)
        /\ path_in = << >> =>
              path_out = [components |-> << >>, is_absolute |-> FALSE,
                          is_directory |-> FALSE]

\* C10 witness: a string with a leading, a doubled and a trailing separator
\* was split into two components.
C10_Witness ==
    /\ Constructed
    /\ Len(path_out.components) = 2
    /\ path_in[1] = "/" /\ EndsWithSlash(path_in)
    /\ \E i \in 1..(Len(path_in) - 2) :
          path_in[i] # "/" /\ path_in[i + 1] = "/" /\ path_in[i + 2] = "/"

(***************************************************************************)
(* SpecComp: one call match_pattern_component(comp_pattern, comp_text).    *)
(***************************************************************************)
CompPatChars == { "a", "b", "*", "?" }
CompTextChars == { "a", "b" }

CompInit ==
    /\ comp_pattern \in SeqsUpTo(CompPatChars, MaxCompPatLen)
    /\ comp_text \in SeqsUpTo(CompTextChars, MaxCompTextLen)
    /\ comp_result = None
    /\ pc = "match_pattern_component"
    /\ MatchIdle /\ PathIdle /\ AggIdle /\ ConfIdle /\ RecIdle

MatchComponent ==
    /\ pc = "match_pattern_component"
    /\ pc' = "matched"
    /\ comp_result' = match_pattern_component(comp_pattern, comp_text)
    /\ UNCHANGED << comp_pattern, comp_text, matchVars, pathVars, aggVars,
                    confVars, recVars >>

CompNext == MatchComponent

SpecComp == CompInit /\ [][CompNext]_vars

Matched == pc = "matched"

\* the wildcard semantics: '*' covers a possibly empty run of characters,
\* '?' exactly one character, any other character itself, and the whole
\* text is consumed
RECURSIVE Wildcard(_, _)
Wildcard(p, t) ==
    IF p = << >> THEN t = << >>
    ELSE IF Head(p) = "*"
    THEN \E n \in 0..Len(t) : Wildcard(Tail(p), SubSeq(t, n + 1, Len(t)))
    ELSE /\ t # << >>
         /\ Head(p) = "?" \/ Head(p) = Head(t)
         /\ Wildcard(Tail(p), Tail(t))

\* C7: match_pattern_component returns true exactly when the text can be
\* split so that each '*' covers a possibly empty run, each '?' one
\* character and every other pattern character the equal text character;
\* an exhausted text matches iff only '*' remain in the pattern.
C7_MemoizedMatcherIsWildcard ==
    Matched =>
        /\ comp_result = Wildcard(comp_pattern, comp_text)
        /\ comp_text = << >> =>
              comp_result = (\A k \in 1..Len(comp_pattern) : comp_pattern[k] = "*")

\* C7 witness: a pattern with a '*', a '?' and a literal has matched a text
\* whose '*' covers more than nothing.
C7_Witness ==
    /\ Matched /\ comp_result = TRUE
    /\ \E i, j, k \in 1..Len(comp_pattern) :
          comp_pattern[i] = "*" /\ comp_pattern[j] = "?" /\ comp_pattern[k] = "a"
    /\ Len(comp_text) > Len(comp_pattern) - 1

(***************************************************************************)
(* SpecRec: one call match_pattern_component(rec_pattern, rec_text), one   *)
(* call of match_recursive_memo at a time.  The calls in progress are the  *)
(* frames of stack; a frame is [p_idx, t_idx, at, i] with at               *)
(*   "lookup"  before line 168 of the call,                                *)
(*   "star"    in the for loop of lines 193-198, the call of line 194 of   *)
(*             iteration i having been made,                               *)
(*   "tail"    at lines 203 / 208, the call having been made.              *)
(* So that a text of more than MemoStride characters keeps a state small,  *)
(* the text is kept as its runs of equal characters and the HashMap as its *)
(* runs of consecutive keys holding one value.                             *)
(***************************************************************************)
MaxRecPatLen == 3
MaxRecTextLen == 3
LongTextLen == 10002

RecPatChars == { "a", "*", "?" }
RecTextChars == { "a", "b" }

\* text.len()
RECURSIVE runs_len(_)
runs_len(runs) ==
    IF runs = << >> THEN 0 ELSE runs[1].n + runs_len(Tail(runs))

\* text[i], for 0 <= i < text.len()
RECURSIVE runs_at(_, _)
runs_at(runs, i) ==
    IF i < runs[1].n THEN runs[1].c ELSE runs_at(Tail(runs), i - runs[1].n)

\* a text written out character by character
unit_runs(txt) == [k \in 1..Len(txt) |-> [c |-> txt[k], n |-> 1]]

\* memo.contains_key(&key)
rec_memo_contains(m, key) == \E r \in m : r.lo <= key /\ key <= r.hi

\* memo.get(&key), for a key present
rec_memo_get(m, key) == (CHOOSE r \in m : r.lo <= key /\ key <= r.hi).value

\* the map without the key
rec_memo_without(m, key) ==
    UNION { IF r.lo <= key /\ key <= r.hi
            THEN { [r EXCEPT !.hi = key - 1] : x \in IF r.lo < key THEN {r} ELSE {} }
                 \cup
                 { [r EXCEPT !.lo = key + 1] : x \in IF key < r.hi THEN {r} ELSE {} }
            ELSE { r } : r \in m }

\* memo.insert(key, value): an earlier value of the key is replaced
rec_memo_insert(m, key, value) ==
    LET rest  == rec_memo_without(m, key)
        left  == { r \in rest : r.hi = key - 1 /\ r.value = value }
        right == { r \in rest : r.lo = key + 1 /\ r.value = value }
        lo    == IF left = {} THEN key ELSE (CHOOSE r \in left : TRUE).lo
        hi    == IF right = {} THEN key ELSE (CHOOSE r \in right : TRUE).hi
    IN  (rest \ (left \cup right)) \cup { [lo |-> lo, hi |-> hi, value |-> value] }

RecInputs ==
    { [pattern |-> p, text |-> unit_runs(t)] :
          p \in SeqsUpTo(RecPatChars, MaxRecPatLen),
          t \in SeqsUpTo(RecTextChars, MaxRecTextLen) }
    \cup { [pattern |-> <<"*", "a">>,
            text |-> << [c |-> "a", n |-> LongTextLen] >>] }

frame(p_idx, t_idx) ==
    [p_idx |-> p_idx, t_idx |-> t_idx, at |-> "lookup", i |-> 0]

\* lines 155-157
RecInit ==
    /\ \E in \in RecInputs : rec_pattern = in.pattern /\ rec_text = in.text
    /\ stack = << frame(0, 0) >>
    /\ rec_memo = {}
    /\ memo_owner = {}
    /\ ret = None
    /\ calls = 1
    /\ pc = "rec"
    /\ MatchIdle /\ PathIdle /\ CompIdle /\ AggIdle /\ ConfIdle

Top == stack[Len(stack)]

\* line 168
Key == memo_key(Top.p_idx, Top.t_idx)

TextLen == runs_len(rec_text)

\* the innermost call returns value, after memo.insert(key, value) if insert
Return(value, insert) ==
    /\ rec_memo' = IF insert THEN rec_memo_insert(rec_memo, Key, value)
                             ELSE rec_memo
    /\ memo_owner' = IF insert THEN rec_memo_insert(memo_owner, Key, Top.p_idx)
                               ELSE memo_owner
    /\ stack' = SubSeq(stack, 1, Len(stack) - 1)
    /\ ret' = value
    /\ pc' = IF Len(stack) = 1 THEN "returned" ELSE "rec"
    /\ UNCHANGED << rec_pattern, rec_text, calls >>
    /\ UNCHANGED << matchVars, pathVars, compVars, aggVars, confVars >>

\* the innermost call moves to at, i and calls
\* match_recursive_memo(pattern, text, p_idx, t_idx, memo)
Call(at, i, p_idx, t_idx) ==
    /\ stack' = Append([stack EXCEPT ![Len(stack)].at = at,
                                     ![Len(stack)].i = i],
                       frame(p_idx, t_idx))
    /\ ret' = None
    /\ calls' = calls + 1
    /\ pc' = "rec"
    /\ UNCHANGED << rec_pattern, rec_text, rec_memo, memo_owner >>
    /\ UNCHANGED << matchVars, pathVars, compVars, aggVars, confVars >>

AtLookup == pc = "rec" /\ Top.at = "lookup"

\* past lines 171-187: no memo entry, neither index at its end
AtMatch ==
    /\ AtLookup /\ ~rec_memo_contains(rec_memo, Key)
    /\ Top.p_idx # Len(rec_pattern) /\ Top.t_idx # TextLen

PatternChar == rec_pattern[Top.p_idx + 1]

\* lines 171-173
MemoHit ==
    /\ AtLookup /\ rec_memo_contains(rec_memo, Key)
    /\ Return(rec_memo_get(rec_memo, Key), FALSE)

\* lines 176-180
PatternEnd ==
    /\ AtLookup /\ ~rec_memo_contains(rec_memo, Key)
    /\ Top.p_idx = Len(rec_pattern)
    /\ Return(Top.t_idx = TextLen, TRUE)

\* lines 182-187
TextEnd ==
    /\ AtLookup /\ ~rec_memo_contains(rec_memo, Key)
    /\ Top.p_idx # Len(rec_pattern) /\ Top.t_idx = TextLen
    /\ Return(all_stars_from(rec_pattern, Top.p_idx), TRUE)

\* lines 190-194, i = 0
StarFirst ==
    /\ AtMatch /\ PatternChar = "*"
    /\ Call("star", 0, Top.p_idx + 1, Top.t_idx + 0)

\* Faulty variant of StarNext: the range of i is one too long, as of
\* 0..=(text.len() - t_idx + 1).
StarNextOneTooFar ==
    /\ pc = "rec" /\ Top.at = "star" /\ ~ret
    /\ Top.i < TextLen - Top.t_idx + 1
    /\ Call("star", Top.i + 1, Top.p_idx + 1, Top.t_idx + (Top.i + 1))

\* lines 193-194, the next i
StarNext ==
    /\ pc = "rec" /\ Top.at = "star" /\ ~ret
    /\ Top.i < TextLen - Top.t_idx
    /\ Call("star", Top.i + 1, Top.p_idx + 1, Top.t_idx + (Top.i + 1))

\* lines 194-196, 215-216
StarFound ==
    /\ pc = "rec" /\ Top.at = "star" /\ ret
    /\ Return(TRUE, TRUE)

\* lines 193, 199, 215-216: the range of i is exhausted
StarExhausted ==
    /\ pc = "rec" /\ Top.at = "star" /\ ~ret
    /\ ~(Top.i < TextLen - Top.t_idx)
    /\ Return(FALSE, TRUE)

\* lines 201-203
Question ==
    /\ AtMatch /\ PatternChar = "?"
    /\ Call("tail", 0, Top.p_idx + 1, Top.t_idx + 1)

\* lines 205-208
LiteralMatch ==
    /\ AtMatch /\ PatternChar \notin { "*", "?" }
    /\ Top.t_idx < TextLen /\ PatternChar = runs_at(rec_text, Top.t_idx)
    /\ Call("tail", 0, Top.p_idx + 1, Top.t_idx + 1)

\* lines 205-211, 215-216
LiteralMismatch ==
    /\ AtMatch /\ PatternChar \notin { "*", "?" }
    /\ ~(Top.t_idx < TextLen /\ PatternChar = runs_at(rec_text, Top.t_idx))
    /\ Return(FALSE, TRUE)

\* lines 203 / 208, 215-216: the value of the call is the call's own
TailReturn ==
    /\ pc = "rec" /\ Top.at = "tail"
    /\ Return(ret, TRUE)

RecNext ==
    \/ MemoHit
    \/ PatternEnd
    \/ TextEnd
    \/ StarFirst
    \/ StarNext
    \/ StarFound
    \/ StarExhausted
    \/ Question
    \/ LiteralMatch
    \/ LiteralMismatch
    \/ TailReturn

SpecRec == RecInit /\ [][RecNext]_vars

RecReturned == pc = "returned"

\* the recursion of lines 176-213 with the memo taken away
RECURSIVE unmemoized(_, _)
unmemoized(p_idx, t_idx) ==
    IF p_idx = Len(rec_pattern) THEN t_idx = TextLen
    ELSE IF t_idx = TextLen THEN all_stars_from(rec_pattern, p_idx)
    ELSE IF rec_pattern[p_idx + 1] = "*"
    THEN \E i \in 0..(TextLen - t_idx) : unmemoized(p_idx + 1, t_idx + i)
    ELSE /\ rec_pattern[p_idx + 1] \in { "?", runs_at(rec_text, t_idx) }
         /\ unmemoized(p_idx + 1, t_idx + 1)

\* C12: a memo lookup that finds the key of the call's index pair finds the
\* entry a call of the same index pair has inserted, texts of MemoStride
\* characters or more included, and the call of match_pattern_component
\* returns what the recursion without the memo returns.
C12_MemoPerIndexPair ==
    /\ (AtLookup /\ rec_memo_contains(rec_memo, Key))
          => rec_memo_get(memo_owner, Key) = Top.p_idx
    /\ RecReturned => ret = unmemoized(0, 0)

(***************************************************************************)
(* SpecEngine: the matching engine, either one call of is_match or one     *)
(* call of match_pattern_component taken call by call.                     *)
(***************************************************************************)
SpecEngine == (Init \/ RecInit) /\ [][Next \/ RecNext]_vars

\* C13: the matching engine is total.  A call of is_match keeps both indices
\* within 0..=length, has executed the loop body text_idx times while it is
\* in the loop (an iteration returns or advances text_idx by one), so at
\* most once per candidate component, can always take a step until it has
\* returned, and returns a boolean.  A call of match_recursive_memo keeps
\* the indices of every call in progress within 0..=length, reads
\* pattern[p_idx] and text[t_idx] only below the lengths, nests at most one
\* call per pattern position, makes a bounded number of calls, can always
\* take a step until the outermost call has returned, and returns a boolean.
C13_EngineIsTotal ==
    /\ pc \in { "entry", "loop", "done" } =>
          /\ pattern_idx \in 0..Len(pattern.components)
          /\ text_idx \in 0..Len(text.components)
          /\ iterations <= Len(text.components)
          /\ pc = "loop" => iterations = text_idx
          /\ Returned => result \in BOOLEAN /\ iterations \in 0..(text_idx + 1)
          /\ Returned \/ ENABLED Next
    /\ pc \in { "rec", "returned" } =>
          /\ \A k \in 1..Len(stack) :
                /\ stack[k].p_idx = k - 1
                /\ stack[k].p_idx \in 0..Len(rec_pattern)
                /\ stack[k].t_idx \in 0..TextLen
                /\ stack[k].at \in { "star", "tail" } =>
                      /\ stack[k].p_idx < Len(rec_pattern)
                      /\ stack[k].t_idx < TextLen
                      /\ stack[k].i \in 0..(TextLen - stack[k].t_idx)
          /\ calls <= 1 + Len(rec_pattern) * (TextLen + 1) * (TextLen + 1)
          /\ RecReturned => ret \in BOOLEAN /\ stack = << >>
          /\ RecReturned \/ ENABLED RecNext

\* C13 witness: a call of is_match on a candidate of three or more
\* components has returned a boolean after one iteration per component.
C13_Witness ==
    /\ Returned /\ result \in BOOLEAN
    /\ Len(text.components) >= 3
    /\ iterations = Len(text.components)

(***************************************************************************)
(* SpecAgg: one call check_patterns(&config, &diff_files), statement by    *)
(* statement.  A HashMap yields its entries in an order the program does   *)
(* not choose: config.iter() yields the groups still pending in any order. *)
(***************************************************************************)
AggGroups == { "compile", "test" }
AggPatterns == { <<"a">>, <<"/", "b">> }
AggFiles == { <<"x", "/", "a">>, <<"b">> }

Configs ==
    UNION { [gs -> SeqsUpTo(AggPatterns, MaxGroupPatterns)] : gs \in SUBSET AggGroups }

FileLists ==
    { [i \in DOMAIN fs |-> from_str(fs[i])] : fs \in SeqsUpTo(AggFiles, MaxFiles) }

AggInit ==
    /\ config \in Configs
    /\ diff_files \in FileLists
    /\ results = << >>
    /\ file_i = 0
    /\ pending = {}
    /\ group_name = None
    /\ pattern_i = 0
    /\ evaluations = << >>
    /\ pc = "init"
    /\ MatchIdle /\ PathIdle /\ CompIdle /\ ConfIdle /\ RecIdle

AggFrame ==
    UNCHANGED << config, diff_files, matchVars, pathVars, compVars, confVars,
                 recVars >>

\* lines 71-76: Initialize all groups to false
InitResults ==
    /\ pc = "init"
    /\ results' = [g \in DOMAIN config |-> FALSE]
    /\ pc' = "files"
    /\ UNCHANGED << file_i, pending, group_name, pattern_i, evaluations >>
    /\ AggFrame

\* line 79: the outer loop takes the next file; line 80 starts config.iter()
NextFile ==
    /\ pc = "files" /\ file_i < Len(diff_files)
    /\ pending' = DOMAIN config
    /\ pc' = "groups"
    /\ UNCHANGED << results, file_i, group_name, pattern_i, evaluations >>
    /\ AggFrame

\* line 97: the outer loop is over, results is returned
ReturnResults ==
    /\ pc = "files" /\ file_i = Len(diff_files)
    /\ pc' = "returned"
    /\ UNCHANGED << results, file_i, pending, group_name, pattern_i, evaluations >>
    /\ AggFrame

\* lines 80-84: the next group is already matched: continue
SkipMatchedGroup ==
    /\ pc = "groups"
    /\ \E g \in pending :
          /\ results[g]
          /\ pending' = pending \ {g}
    /\ UNCHANGED << pc, results, file_i, group_name, pattern_i, evaluations >>
    /\ AggFrame

\* lines 80-87: the next group is not yet matched: its patterns are tried
EnterGroup ==
    /\ pc = "groups"
    /\ \E g \in pending :
          /\ ~results[g]
          /\ pending' = pending \ {g}
          /\ group_name' = g
    /\ pattern_i' = 0
    /\ pc' = "patterns"
    /\ UNCHANGED << results, file_i, evaluations >>
    /\ AggFrame

\* line 80: config.iter() is exhausted, back to the outer loop
GroupsDone ==
    /\ pc = "groups" /\ pending = {}
    /\ file_i' = file_i + 1
    /\ pc' = "files"
    /\ UNCHANGED << results, pending, group_name, pattern_i, evaluations >>
    /\ AggFrame

CurPatternStr == config[group_name][pattern_i + 1]
CurFile == diff_files[file_i + 1]

Evaluation(matched) ==
    [group |-> group_name, pattern |-> pattern_i, file |-> file_i,
     matched |-> matched]

\* Faulty variant of PatternMatches: the first match ends the whole function.
PatternMatchesThenReturns ==
    /\ pc = "patterns" /\ pattern_i < Len(config[group_name])
    /\ is_match(from_str(CurPatternStr), CurFile)
    /\ results' = [results EXCEPT ![group_name] = TRUE]
    /\ evaluations' = Append(evaluations, Evaluation(TRUE))
    /\ pc' = "returned"
    /\ UNCHANGED << file_i, pending, group_name, pattern_i >>
    /\ AggFrame

\* lines 87-92: the pattern matches the file: set the group, break
PatternMatches ==
    /\ pc = "patterns" /\ pattern_i < Len(config[group_name])
    /\ is_match(from_str(CurPatternStr), CurFile)
    /\ results' = [results EXCEPT ![group_name] = TRUE]
    /\ evaluations' = Append(evaluations, Evaluation(TRUE))
    /\ pc' = "groups"
    /\ UNCHANGED << file_i, pending, group_name, pattern_i >>
    /\ AggFrame

\* lines 87-89: the pattern does not match the file: next pattern
PatternFails ==
    /\ pc = "patterns" /\ pattern_i < Len(config[group_name])
    /\ ~is_match(from_str(CurPatternStr), CurFile)
    /\ evaluations' = Append(evaluations, Evaluation(FALSE))
    /\ pattern_i' = pattern_i + 1
    /\ UNCHANGED << pc, results, file_i, pending, group_name >>
    /\ AggFrame

\* line 87: the group's patterns are exhausted for this file
PatternsDone ==
    /\ pc = "patterns" /\ pattern_i = Len(config[group_name])
    /\ pc' = "groups"
    /\ UNCHANGED << results, file_i, pending, group_name, pattern_i, evaluations >>
    /\ AggFrame

AggNext ==
    \/ InitResults
    \/ NextFile
    \/ ReturnResults
    \/ SkipMatchedGroup
    \/ EnterGroup
    \/ GroupsDone
    \/ PatternMatches
    \/ PatternFails
    \/ PatternsDone

SpecAgg == AggInit /\ [][AggNext]_vars

\* some pattern of group g matches some candidate file
GroupMatches(g) ==
    \E i \in 1..Len(config[g]) : \E f \in 1..Len(diff_files) :
        is_match(from_str(config[g][i]), diff_files[f])

\* C8: check_patterns returns a map whose keys are exactly the groups of the
\* configuration, group g being true iff some pattern of g matches some
\* candidate file, whatever order the groups are visited in; throughout the
\* call a group is true iff one of the calls made for it matched, and no
\* call is made for a group after a call that matched for it (so a true
\* value is never taken back and ends the group's evaluation, while the
\* other groups are still evaluated).
C8_Aggregation ==
    /\ pc # "init" =>
          /\ DOMAIN results = DOMAIN config
          /\ \A g \in DOMAIN results :
                results[g] = (\E k \in 1..Len(evaluations) :
                                 evaluations[k].group = g /\ evaluations[k].matched)
    /\ \A j, k \in 1..Len(evaluations) :
          (j < k /\ evaluations[j].group = evaluations[k].group)
              => ~evaluations[j].matched
    /\ pc = "returned" =>
          \A g \in DOMAIN config : results[g] = GroupMatches(g)

\* C8 witness: the call has returned with one group true and the other
\* false, after a call for the second group that came later than the match
\* of the first.
C8_Witness ==
    /\ pc = "returned"
    /\ DOMAIN results = AggGroups
    /\ \E g, h \in AggGroups :
          /\ results[g] /\ ~results[h]
          /\ \E j, k \in 1..Len(evaluations) :
                /\ j < k
                /\ evaluations[j].group = g /\ evaluations[j].matched
                /\ evaluations[k].group = h

(***************************************************************************)
(* str helpers of the Rust standard library used by parse_config.          *)
(***************************************************************************)
\* str::lines(): the text is cut at each "\n"; a final empty piece is dropped
RECURSIVE lines_scan(_, _, _)
lines_scan(s, cur, acc) ==
    IF s = << >>
    THEN IF cur = << >> THEN acc ELSE Append(acc, cur)
    ELSE IF Head(s) = "\n"
         THEN lines_scan(Tail(s), << >>, Append(acc, cur))
         ELSE lines_scan(Tail(s), Append(cur, Head(s)), acc)

lines(s) == lines_scan(s, << >>, << >>)

is_whitespace(c) == c \in { " ", "\t", "\r" }

\* str::trim(): leading and trailing whitespace removed
RECURSIVE trim_start(_)
trim_start(s) ==
    IF s # << >> /\ is_whitespace(Head(s)) THEN trim_start(Tail(s)) ELSE s

RECURSIVE trim_end(_)
trim_end(s) ==
    IF s # << >> /\ is_whitespace(s[Len(s)])
    THEN trim_end(SubSeq(s, 1, Len(s) - 1))
    ELSE s

trim(s) == trim_end(trim_start(s))

starts_with(s, c) == s # << >> /\ s[1] = c
ends_with(s, c) == s # << >> /\ s[Len(s)] = c

(***************************************************************************)
(* parse_config, one line of content.lines() per step.                     *)
(***************************************************************************)
\* line 29: Skip empty lines and comments
is_skipped(trimmed) ==
    trimmed = << >> \/ starts_with(trimmed, "#") \/ starts_with(trimmed, ";")

\* line 34
is_header(trimmed) == starts_with(trimmed, "[") /\ ends_with(trimmed, "]")

\* line 49: trimmed[1..trimmed.len() - 1]
section_name(trimmed) == Slice(trimmed, 1, Len(trimmed) - 1)

map_insert(m, key, value) ==
    [k \in DOMAIN m \cup {key} |-> IF k = key THEN value ELSE m[k]]

\* Faulty variant of save_previous_section: the section that ends is not stored.
previous_section_dropped(m, section, items) == m

\* lines 36-41: Save previous section items if any
save_previous_section(m, section, items) ==
    IF section # << >> THEN map_insert(m, section, items) ELSE m

ParseError(line, message) == [ok |-> FALSE, line |-> line, message |-> message]
ParseOk(m) == [ok |-> TRUE, map |-> m]

(***************************************************************************)
(* SpecConf: one call parse_config(&content).                              *)
(***************************************************************************)
ConfLines ==
    { << >>,
      <<" ", " ">>,
      <<"#", "c">>,
      <<";">>,
      <<"[", "a", "]">>,
      <<" ", "[", "b", "]", " ">>,
      <<"[", "]">>,
      <<"x">>,
      <<" ", "y", " ">> }

RECURSIVE unlines(_)
unlines(ls) ==
    IF ls = << >> THEN << >> ELSE Head(ls) \o <<"\n">> \o unlines(Tail(ls))

\* with and without the newline that ends the last line
Contents ==
    { unlines(ls) : ls \in SeqsUpTo(ConfLines, MaxLines) }
        \cup { SubSeq(unlines(ls), 1, Len(unlines(ls)) - 1) :
                  ls \in SeqsUpTo(ConfLines, MaxLines) \ { << >> } }

ConfInit ==
    /\ content \in Contents
    /\ line_num = 0
    /\ parsed = << >>
    /\ current_section = << >>
    /\ vec_section = << >>
    /\ outcome = None
    /\ pc = "lines"
    /\ MatchIdle /\ PathIdle /\ CompIdle /\ AggIdle /\ RecIdle

ConfFrame ==
    UNCHANGED << content, matchVars, pathVars, compVars, aggVars, recVars >>

AtLine == pc = "lines" /\ line_num < Len(lines(content))

line_number == line_num + 1
trimmed_line == trim(lines(content)[line_num + 1])

\* lines 28-31
SkipLine ==
    /\ AtLine /\ is_skipped(trimmed_line)
    /\ line_num' = line_num + 1
    /\ UNCHANGED << pc, parsed, current_section, vec_section, outcome >>
    /\ ConfFrame

\* lines 34-47: a header shorter than three characters
HeaderTooShort ==
    /\ AtLine /\ ~is_skipped(trimmed_line) /\ is_header(trimmed_line)
    /\ Len(trimmed_line) < 3
    /\ parsed' = save_previous_section(parsed, current_section, vec_section)
    /\ current_section' = << >>
    /\ vec_section' = << >>
    /\ outcome' = ParseError(line_number, "Invalid section header: too short")
    /\ pc' = "returned"
    /\ UNCHANGED line_num
    /\ ConfFrame

\* lines 34-56: a header whose name is already a key of result
DuplicateSection ==
    /\ AtLine /\ ~is_skipped(trimmed_line) /\ is_header(trimmed_line)
    /\ Len(trimmed_line) >= 3
    /\ section_name(trimmed_line)
          \in DOMAIN save_previous_section(parsed, current_section, vec_section)
    /\ parsed' = save_previous_section(parsed, current_section, vec_section)
    /\ current_section' = section_name(trimmed_line)
    /\ vec_section' = << >>
    /\ outcome' = ParseError(line_number, "Duplicate section")
    /\ pc' = "returned"
    /\ UNCHANGED line_num
    /\ ConfFrame

\* lines 34-56: a header that opens a new section
SectionHeader ==
    /\ AtLine /\ ~is_skipped(trimmed_line) /\ is_header(trimmed_line)
    /\ Len(trimmed_line) >= 3
    /\ section_name(trimmed_line)
          \notin DOMAIN save_previous_section(parsed, current_section, vec_section)
    /\ parsed' = save_previous_section(parsed, current_section, vec_section)
    /\ current_section' = section_name(trimmed_line)
    /\ vec_section' = << >>
    /\ line_num' = line_num + 1
    /\ UNCHANGED << pc, outcome >>
    /\ ConfFrame

\* lines 57-63
ItemBeforeSection ==
    /\ AtLine /\ ~is_skipped(trimmed_line) /\ ~is_header(trimmed_line)
    /\ current_section = << >>
    /\ outcome' = ParseError(line_number, "Item found before any section is defined")
    /\ pc' = "returned"
    /\ UNCHANGED << line_num, parsed, current_section, vec_section >>
    /\ ConfFrame

\* lines 57-73 (the test item.is_empty() of line 66 is never true: a line
\* whose trimmed text is empty was skipped at line 29)
Item ==
    /\ AtLine /\ ~is_skipped(trimmed_line) /\ ~is_header(trimmed_line)
    /\ current_section # << >>
    /\ vec_section' = Append(vec_section, trimmed_line)
    /\ line_num' = line_num + 1
    /\ UNCHANGED << pc, parsed, current_section, outcome >>
    /\ ConfFrame

\* lines 75-79
Finish ==
    /\ pc = "lines" /\ line_num = Len(lines(content))
    /\ parsed' = save_previous_section(parsed, current_section, vec_section)
    /\ outcome' = ParseOk(parsed')
    /\ pc' = "returned"
    /\ UNCHANGED << line_num, current_section, vec_section >>
    /\ ConfFrame

ConfNext ==
    \/ SkipLine
    \/ HeaderTooShort
    \/ DuplicateSection
    \/ SectionHeader
    \/ ItemBeforeSection
    \/ Item
    \/ Finish

SpecConf == ConfInit /\ [][ConfNext]_vars

(***************************************************************************)
(* Claim about parse_config, checked under SpecConf.                       *)
(***************************************************************************)
\* the file's lines, trimmed
Trimmed == [n \in DOMAIN lines(content) |-> trim(lines(content)[n])]

HeaderLine(n) == ~is_skipped(Trimmed[n]) /\ is_header(Trimmed[n])
ItemLine(n) == ~is_skipped(Trimmed[n]) /\ ~is_header(Trimmed[n])

\* line n is the empty header, repeats an earlier header's name, or is an
\* item with no header before it
Defect(n) ==
    \/ HeaderLine(n) /\ Trimmed[n] = <<"[", "]">>
    \/ HeaderLine(n) /\ \E m \in 1..(n - 1) :
          HeaderLine(m) /\ section_name(Trimmed[m]) = section_name(Trimmed[n])
    \/ ItemLine(n) /\ ~\E m \in 1..(n - 1) : HeaderLine(m)

Defects == { n \in DOMAIN Trimmed : Defect(n) }

FirstDefect == CHOOSE n \in Defects : \A m \in Defects : n <= m

\* the positions of the items of the section whose header is line h
ItemsOf(h) ==
    { n \in DOMAIN Trimmed :
        /\ n > h /\ ItemLine(n)
        /\ ~\E m \in (h + 1)..(n - 1) : HeaderLine(m) }

\* the trimmed lines at the positions ps, in file order
RECURSIVE InOrder(_)
InOrder(ps) ==
    IF ps = {} THEN << >>
    ELSE LET least == CHOOSE n \in ps : \A m \in ps : n <= m
         IN  <<Trimmed[least]>> \o InOrder(ps \ {least})

ExpectedMap ==
    [name \in { section_name(Trimmed[h]) : h \in { n \in DOMAIN Trimmed : HeaderLine(n) } }
        |-> InOrder(ItemsOf(CHOOSE h \in DOMAIN Trimmed :
                               HeaderLine(h) /\ section_name(Trimmed[h]) = name))]

\* C9: parse_config returns Err, with no map, carrying the 1-based number of
\* the first line that is an empty header "[]", a header repeating an earlier
\* header's name, or an item before the first header; with no such line it
\* returns Ok with one key per header, mapped to the trimmed item lines that
\* follow it, in file order, blank and comment lines skipped.
C9_ConfigErrorsCarryLine ==
    pc = "returned" =>
        IF Defects # {}
        THEN /\ ~outcome.ok
             /\ outcome.line = FirstDefect
             /\ DOMAIN outcome = { "ok", "line", "message" }
        ELSE /\ outcome.ok
             /\ outcome.map = ExpectedMap

\* C9 witness: a header on line 3 repeats the header of line 1 after an item
\* of that section, and the call returned the error for line 3.
C9_Witness ==
    /\ pc = "returned" /\ ~outcome.ok /\ outcome.line = 3
    /\ Len(Trimmed) >= 3
    /\ HeaderLine(1) /\ ItemLine(2) /\ HeaderLine(3)
    /\ section_name(Trimmed[1]) = section_name(Trimmed[3])

====
